---- MODULE Spec2Model ----
(***************************************************************************)
(* The evolution engine of src/main.rs: a population of candidate strings  *)
(* stepped by GeneticAlgorithm::next through the phases Init,              *)
(* ComputeFitness, Reorder, RemoveUnfit and BreedNew.                      *)
(*                                                                         *)
(* Rust vectors are 0-indexed, TLA+ sequences 1-indexed: population[k] of  *)
(* the code is population[k + 1] here.  Characters are small numbers.      *)
(* A probability p is the number 100 * p.                                  *)
(***************************************************************************)
EXTENDS Integers, Sequences, FiniteSets

(* ------------------------------ bounds --------------------------------- *)

\* largest population cap (population_size) a configuration may have
MaxCap == 4

\* the count of consecutive calls without work is kept up to this value
IdleCap == 3

\* largest population cap of the configurations run under fairness
MaxLiveCap == 3

(* ------------------------- program constants --------------------------- *)

\* the alphabet, cut down to two symbols
LETTERS == {1, 2}

\* the target, cut down to two characters of the alphabet
TARGET_STR == << 1, 2 >>

MUTATION_PROB == 15

\* the mutation probabilities a run may be configured with: never, and the
\* program's 0.15
MutationProbs == {0, MUTATION_PROB}

\* the configurations with 0 < num_fit_to_keep < population_size
ValidConfigs ==
    { c \in [num_fit_to_keep : 1 .. MaxCap, population_size : 1 .. MaxCap] :
        c.num_fit_to_keep < c.population_size }

\* every configuration GeneticAlgorithm::new accepts: it checks nothing
AnyConfigs == [num_fit_to_keep : 0 .. MaxCap, population_size : 0 .. MaxCap]

(* ------------------------------- state --------------------------------- *)

VARIABLES
    population,       \* Vec<Candidate>: sequence of [text, fitness, in_focus]
    state,            \* STATE of the engine
    num_fit_to_keep,  \* survivor count (fixed at construction)
    population_size,  \* population cap (fixed at construction)
    mutation_prob,    \* mutation probability (fixed at construction)
    ret,              \* outcome of the latest call of next: "Some", "None",
                      \* "Panic" (the call panicked), "NoCall" (none yet)
    callbacks,        \* labels the callback received during the latest call
    called,           \* STATE at the entry of the latest call
    before,           \* population at the entry of the latest call
    full_once,        \* the population has reached population_size
    top_sorted,       \* texts and fitness of the first num_fit_to_keep
                      \* candidates when Reorder was last left
    bred_once,        \* BreedNew has been left at least once
    idle              \* consecutive calls so far that returned None

vars == << population, state, num_fit_to_keep, population_size, mutation_prob,
           ret, callbacks, called, before, full_once, top_sorted, bred_once,
           idle >>

(* ----------------------------- Candidate ------------------------------- *)

Candidate_new(text) == [text |-> text, fitness |-> -1, in_focus |-> FALSE]

RECURSIVE CountMatches(_, _, _)
\* chars().zip(chars()).filter(c == t).count() over the pairs k..
CountMatches(text, target, k) ==
    IF k > Len(text) \/ k > Len(target)
    THEN 0
    ELSE (IF text[k] = target[k] THEN 1 ELSE 0) + CountMatches(text, target, k + 1)

\* set_fitness with the first character skipped
set_fitness_skip_first(c, target_str) ==
    [c EXCEPT !.fitness = CountMatches(c.text, target_str, 2)]

set_fitness(c, target_str) ==
    [c EXCEPT !.fitness = CountMatches(c.text, target_str, 1)]

\* reset_focus clearing nothing
reset_focus_nothing(pop) == pop

reset_focus(pop) ==
    [k \in 1 .. Len(pop) |-> [pop[k] EXCEPT !.in_focus = FALSE]]

set_focus(pop, k) == [pop EXCEPT ![k].in_focus = TRUE]

RECURSIVE Texts(_)
\* every string of n characters of LETTERS
Texts(n) ==
    IF n = 0 THEN { << >> }
    ELSE { Append(t, c) : t \in Texts(n - 1), c \in LETTERS }

\* a position mutating whatever the probability
BreedChars_always_mutates(char_a, char_b, prob) == LETTERS \cup {char_a, char_b}

\* the characters one position of a child may get from char_a and char_b
BreedChars(char_a, char_b, prob) ==
    IF prob = 0 THEN {char_a, char_b}        \* gen_bool(0.0) is never true
    ELSE IF prob >= 100 THEN LETTERS         \* gen_bool(1.0) is always true
    ELSE LETTERS \cup {char_a, char_b}

RECURSIVE BreedTexts(_, _, _, _)
\* the texts zip(parent_a, parent_b).map(..).collect() may produce from
\* position k on
BreedTexts(ta, tb, prob, k) ==
    IF k > Len(ta) \/ k > Len(tb) THEN { << >> }
    ELSE { << c >> \o rest : c \in BreedChars(ta[k], tb[k], prob),
                             rest \in BreedTexts(ta, tb, prob, k + 1) }

breed(parent_a, parent_b, prob) ==
    { Candidate_new(t) : t \in BreedTexts(parent_a.text, parent_b.text, prob, 1) }

(* --------------------------- the work units ---------------------------- *)

\* what a work-unit function leaves behind: the population, the bool it
\* returns, and whether it panicked instead of returning
Outcome(pop, work) == [pop |-> pop, work |-> work, panic |-> FALSE]

Panicked(pop) == [pop |-> pop, work |-> FALSE, panic |-> TRUE]

\* rng.gen_range(lo..hi): the values it may return; it panics on an empty range
gen_range(lo, hi) == lo .. (hi - 1)

seed_population(pop, size, target_str_len) ==
    IF Len(pop) < size
    THEN { Outcome(set_focus(Append(pop, Candidate_new(t)), Len(pop) + 1), TRUE) :
             t \in Texts(target_str_len) }
    ELSE { Outcome(pop, FALSE) }

\* position of the first candidate with fitness < 0, or 0 when there is none
FirstUnscored(pop) ==
    IF \E k \in 1 .. Len(pop) : pop[k].fitness < 0
    THEN CHOOSE k \in 1 .. Len(pop) :
           /\ pop[k].fitness < 0
           /\ \A m \in 1 .. (k - 1) : ~(pop[m].fitness < 0)
    ELSE 0

compute_fitness(pop, target_str) ==
    LET k == FirstUnscored(pop) IN
    IF k > 0
    THEN { Outcome([pop EXCEPT ![k] = [set_fitness(pop[k], target_str)
                                         EXCEPT !.in_focus = TRUE]], TRUE) }
    ELSE { Outcome(pop, FALSE) }

\* population.swap(j, j + 1), j counted from 0
swap(pop, j) == [pop EXCEPT ![j + 1] = pop[j + 2], ![j + 2] = pop[j + 1]]

RECURSIVE InnerLoop_ascending(_, _, _)
\* the inner loop with the comparison turned round
InnerLoop_ascending(acc, j, lim) ==
    IF j >= lim THEN acc
    ELSE IF acc.pop[j + 1].fitness > acc.pop[j + 2].fitness
         THEN InnerLoop_ascending([pop |-> swap(acc.pop, j), made_swap |-> TRUE],
                                  j + 1, lim)
         ELSE InnerLoop_ascending(acc, j + 1, lim)

RECURSIVE InnerLoop(_, _, _)
\* for j in from..lim: compare and swap neighbours; acc is [pop, made_swap]
InnerLoop(acc, j, lim) ==
    IF j >= lim THEN acc
    ELSE IF acc.pop[j + 1].fitness < acc.pop[j + 2].fitness
         THEN InnerLoop([pop |-> swap(acc.pop, j), made_swap |-> TRUE], j + 1, lim)
         ELSE InnerLoop(acc, j + 1, lim)

RECURSIVE OuterLoop(_, _, _)
\* for i in from..n: one inner pass over 0..n - i - 1
OuterLoop(acc, i, n) ==
    IF i >= n THEN acc
    ELSE OuterLoop(InnerLoop(acc, 0, n - i - 1), i + 1, n)

\* position (from 0) of the first neighbours with fitness in ascending order,
\* or -1 when there are none
FirstAscent(pop) ==
    IF \E j \in 0 .. (Len(pop) - 2) : pop[j + 1].fitness < pop[j + 2].fitness
    THEN CHOOSE j \in 0 .. (Len(pop) - 2) :
           /\ pop[j + 1].fitness < pop[j + 2].fitness
           /\ \A m \in 0 .. (j - 1) : ~(pop[m + 1].fitness < pop[m + 2].fitness)
    ELSE -1

\* reorder_by_fitness returning after its first swap
reorder_first_swap(pop) ==
    IF FirstAscent(pop) >= 0
    THEN { Outcome(swap(pop, FirstAscent(pop)), TRUE) }
    ELSE { Outcome(pop, FALSE) }

\* reorder_by_fitness never setting made_swap
reorder_no_flag(pop) ==
    { Outcome(OuterLoop([pop |-> pop, made_swap |-> FALSE], 0, Len(pop)).pop, FALSE) }

reorder_by_fitness(pop) ==
    LET done == OuterLoop([pop |-> pop, made_swap |-> FALSE], 0, Len(pop)) IN
    { Outcome(done.pop, done.made_swap) }

\* remove_unfit with >= for >
remove_unfit_one_more(pop, keep) ==
    IF Len(pop) >= keep /\ Len(pop) > 0
    THEN LET popped == SubSeq(pop, 1, Len(pop) - 1) IN
         { Outcome(IF Len(popped) > 0 THEN set_focus(popped, Len(popped)) ELSE popped,
                   TRUE) }
    ELSE { Outcome(pop, FALSE) }

\* remove_unfit removing the first candidate, not the last
remove_unfit_first(pop, keep) ==
    IF Len(pop) > keep
    THEN LET popped == Tail(pop) IN
         { Outcome(IF Len(popped) > 0 THEN set_focus(popped, Len(popped)) ELSE popped,
                   TRUE) }
    ELSE { Outcome(pop, FALSE) }

remove_unfit(pop, keep) ==
    IF Len(pop) > keep
    THEN LET popped == SubSeq(pop, 1, Len(pop) - 1) IN
         { Outcome(IF Len(popped) > 0 THEN set_focus(popped, Len(popped)) ELSE popped,
                   TRUE) }
    ELSE { Outcome(pop, FALSE) }

\* the population breed_new leaves with the parents i and j (counted from 0)
\* and the child
Bred(pop, i, j, child) ==
    set_focus(Append(set_focus(set_focus(reset_focus(pop), i + 1), j + 1), child),
              Len(pop) + 1)

\* breed_new drawing the second parent like the first, from 0..num_fit
breed_new_any_pair(pop, size, prob) ==
    LET num_fit == Len(pop) IN
    IF Len(pop) < size
    THEN IF gen_range(0, num_fit) = {}
         THEN { Panicked(pop) }
         ELSE UNION { UNION { { Outcome(Bred(pop, i, (i + r) % num_fit, child), TRUE) :
                                  child \in breed(pop[i + 1],
                                                  pop[((i + r) % num_fit) + 1], prob) } :
                              r \in gen_range(0, num_fit) } :
                      i \in gen_range(0, num_fit) }
    ELSE { Outcome(pop, FALSE) }

\* breed_new stopping one candidate short of size
breed_new_one_short(pop, size, prob) ==
    LET num_fit == Len(pop) IN
    IF Len(pop) + 1 < size
    THEN IF gen_range(0, num_fit) = {} \/ gen_range(1, num_fit) = {}
         THEN { Panicked(pop) }
         ELSE UNION { UNION { { Outcome(Bred(pop, i, (i + r) % num_fit, child), TRUE) :
                                  child \in breed(pop[i + 1],
                                                  pop[((i + r) % num_fit) + 1], prob) } :
                              r \in gen_range(1, num_fit) } :
                      i \in gen_range(0, num_fit) }
    ELSE { Outcome(pop, FALSE) }

breed_new(pop, size, prob) ==
    LET num_fit == Len(pop) IN
    IF Len(pop) < size
    THEN IF gen_range(0, num_fit) = {} \/ gen_range(1, num_fit) = {}
         THEN { Panicked(pop) }
         ELSE UNION { UNION { { Outcome(Bred(pop, i, (i + r) % num_fit, child), TRUE) :
                                  child \in breed(pop[i + 1],
                                                  pop[((i + r) % num_fit) + 1], prob) } :
                              r \in gen_range(1, num_fit) } :
                      i \in gen_range(0, num_fit) }
    ELSE { Outcome(pop, FALSE) }

(* ------------------------------ the engine ----------------------------- *)

States == {"Init", "ComputeFitness", "Reorder", "RemoveUnfit", "BreedNew"}

description(st) ==
    CASE st = "Init" -> "Seeding the population"
      [] st = "ComputeFitness" -> "Computing fitness"
      [] st = "Reorder" -> "Sorting by fitness"
      [] st = "RemoveUnfit" -> "Removing unfit candidates"
      [] st = "BreedNew" -> "Breeding new candidates"

\* the cycle with BreedNew handing over to ComputeFitness
NextState_skip_init(st) ==
    CASE st = "Init" -> "ComputeFitness"
      [] st = "ComputeFitness" -> "Reorder"
      [] st = "Reorder" -> "RemoveUnfit"
      [] st = "RemoveUnfit" -> "BreedNew"
      [] st = "BreedNew" -> "ComputeFitness"

\* the cycle with BreedNew never left
NextState_stuck(st) ==
    CASE st = "Init" -> "ComputeFitness"
      [] st = "ComputeFitness" -> "Reorder"
      [] st = "Reorder" -> "RemoveUnfit"
      [] st = "RemoveUnfit" -> "BreedNew"
      [] st = "BreedNew" -> "BreedNew"

\* the cycle with Init handing over to Reorder
NextState_skip_scoring(st) ==
    CASE st = "Init" -> "Reorder"
      [] st = "ComputeFitness" -> "Reorder"
      [] st = "Reorder" -> "RemoveUnfit"
      [] st = "RemoveUnfit" -> "BreedNew"
      [] st = "BreedNew" -> "Init"

\* the state a match arm of next assigns when its work unit returns false
NextState(st) ==
    CASE st = "Init" -> "ComputeFitness"
      [] st = "ComputeFitness" -> "Reorder"
      [] st = "Reorder" -> "RemoveUnfit"
      [] st = "RemoveUnfit" -> "BreedNew"
      [] st = "BreedNew" -> "Init"

\* the callback invoked whatever the work unit returned
Notify_always(work, st) == << description(st) >>

\* the callback invocations of one match arm: one when the work unit
\* returned true, none otherwise
Notify(work, st) == IF work THEN << description(st) >> ELSE << >>

\* the value next returns
Returned(work) == IF work THEN "Some" ELSE "None"

\* texts and fitness of the first n candidates of pop (all, if fewer)
Top(pop, n) ==
    [k \in 1 .. (IF Len(pop) < n THEN Len(pop) ELSE n) |->
        [text |-> pop[k].text, fitness |-> pop[k].fitness]]

\* one match arm of next, its work unit having left `out`
Arm(out) ==
    /\ population' = out.pop
    /\ called' = state
    /\ before' = population
    /\ full_once' = (full_once \/ Len(out.pop) = population_size)
    /\ top_sorted' = IF state = "Reorder" /\ ~out.panic /\ ~out.work
                     THEN Top(out.pop, num_fit_to_keep)
                     ELSE top_sorted
    /\ bred_once' = (bred_once \/ (state = "BreedNew" /\ ~out.panic /\ ~out.work))
    /\ idle' = IF out.work \/ out.panic THEN 0
               ELSE IF idle < IdleCap THEN idle + 1 ELSE IdleCap
    /\ UNCHANGED << num_fit_to_keep, population_size, mutation_prob >>
    /\ IF out.panic
       THEN /\ ret' = "Panic"
            /\ callbacks' = << >>
            /\ state' = state
       ELSE /\ ret' = Returned(out.work)
            /\ callbacks' = Notify(out.work, state)
            /\ state' = IF out.work THEN state ELSE NextState(state)

\* a panic unwinds main: no call follows it
Running == ret # "Panic"

NextInit ==
    /\ Running
    /\ state = "Init"
    /\ \E out \in seed_population(reset_focus(population), population_size,
                                  Len(TARGET_STR)) : Arm(out)

NextComputeFitness ==
    /\ Running
    /\ state = "ComputeFitness"
    /\ \E out \in compute_fitness(reset_focus(population), TARGET_STR) : Arm(out)

NextReorder ==
    /\ Running
    /\ state = "Reorder"
    /\ \E out \in reorder_by_fitness(reset_focus(population)) : Arm(out)

NextRemoveUnfit ==
    /\ Running
    /\ state = "RemoveUnfit"
    /\ \E out \in remove_unfit(reset_focus(population), num_fit_to_keep) : Arm(out)

NextBreedNew ==
    /\ Running
    /\ state = "BreedNew"
    /\ \E out \in breed_new(reset_focus(population), population_size,
                            mutation_prob) : Arm(out)

\* main: an empty population, the engine in STATE::Init
InitWith(configs) ==
    /\ population = << >>
    /\ state = "Init"
    /\ \E c \in configs :
         /\ num_fit_to_keep = c.num_fit_to_keep
         /\ population_size = c.population_size
    /\ mutation_prob \in MutationProbs
    /\ ret = "NoCall"
    /\ callbacks = << >>
    /\ called = "Init"
    /\ before = << >>
    /\ full_once = FALSE
    /\ top_sorted = << >>
    /\ bred_once = FALSE
    /\ idle = 0

Init == InitWith(ValidConfigs)

Next ==
    \/ NextInit
    \/ NextComputeFitness
    \/ NextReorder
    \/ NextRemoveUnfit
    \/ NextBreedNew

Spec == Init /\ [][Next]_vars

\* the engine constructed with whatever configuration new accepts
InitAny == InitWith(AnyConfigs)

SpecAny == InitAny /\ [][Next]_vars

\* the configurations with 2 <= num_fit_to_keep < population_size
LiveConfigs ==
    { c \in ValidConfigs :
        c.num_fit_to_keep >= 2 /\ c.population_size <= MaxLiveCap }

InitLive == InitWith(LiveConfigs)

\* main calls next in a loop that never ends: a call that can be made is made
SpecLive == InitLive /\ [][Next]_vars /\ WF_vars(Next)

(* ------------------------- notions of the claims ----------------------- *)

\* a population without its in_focus flags
Content(pop) ==
    [k \in 1 .. Len(pop) |-> [text |-> pop[k].text, fitness |-> pop[k].fitness]]

\* fitness never rises from one candidate to the next
NonIncreasing(pop) ==
    \A k \in 1 .. (Len(pop) - 1) : pop[k].fitness >= pop[k + 1].fitness

\* the phase st has a work unit to perform on pop
PendingWork(st, pop) ==
    CASE st = "Init" -> Len(pop) < population_size
      [] st = "ComputeFitness" -> \E k \in 1 .. Len(pop) : pop[k].fitness = -1
      [] st = "Reorder" -> ~NonIncreasing(pop)
      [] st = "RemoveUnfit" -> Len(pop) > num_fit_to_keep
      [] st = "BreedNew" -> Len(pop) < population_size

\* the latest call of next changed a text, a fitness, the order or the size
DidWork == Content(population) # Content(before)

\* the candidates of pop with fitness f, in their order
OfFitness(pop, f) ==
    LET Has(c) == c.fitness = f IN SelectSeq(Content(pop), Has)

\* the number of positions at which text and target agree
MatchCount(text, target) ==
    Cardinality({ k \in (DOMAIN text) \cap (DOMAIN target) : text[k] = target[k] })

(* -------------------------------- claims ------------------------------- *)

\* C1: from an empty population and a configuration with
\* 0 < num_fit_to_keep < population_size, the population never holds more
\* than population_size candidates, and once it has held population_size it
\* never holds fewer than num_fit_to_keep.
C1_SizeWithinBounds ==
    /\ Len(population) <= population_size
    /\ full_once => Len(population) >= num_fit_to_keep

\* culled down to the survivors after having been full
C1_Witness ==
    /\ full_once
    /\ called = "RemoveUnfit"
    /\ ret = "None"
    /\ Len(population) = num_fit_to_keep

\* C2: a call of next invokes the callback exactly once, with the label of
\* the phase it was called in, and returns Some when it performed a work
\* unit; it does not invoke the callback and returns None when the phase
\* had nothing to do; it never invokes the callback twice.
C2_CallbackOncePerWorkUnit ==
    /\ Len(callbacks) <= 1
    /\ DidWork =>
         /\ ret = "Some"
         /\ callbacks = << description(called) >>
    /\ (ret \in {"Some", "None"} /\ ~DidWork) =>
         /\ ret = "None"
         /\ callbacks = << >>
    /\ (ret = "Some") <=> (Len(callbacks) = 1)

\* a sorting call that notified once
C2_Witness ==
    /\ called = "Reorder"
    /\ DidWork
    /\ ret = "Some"
    /\ callbacks = << "Sorting by fitness" >>

C4_CascadesWithinCall ==
    (ret = "None") => \A st \in States : ~PendingWork(st, population)

\* C4 as amended: a call returns None exactly when the phase it was called
\* in had nothing to do, and it then moves to the following phase without
\* attempting it, whether or not that phase has work.
C4_OnePhasePerCall ==
    (ret \in {"Some", "None"}) =>
        /\ (ret = "None") <=> ~PendingWork(called, before)
        /\ (ret = "None") => (state # called /\ ~DidWork)

\* a call that returned None and left work for the phase it moved to
C4_Witness ==
    /\ ret = "None"
    /\ state # called
    /\ PendingWork(state, population)

\* C5: with 0 < num_fit_to_keep < population_size no call of next fails.
C5_NoCallFails == ret # "Panic"

\* the phases in the order of their cycle
PhaseCycle == << "Init", "ComputeFitness", "Reorder", "RemoveUnfit", "BreedNew" >>

\* the phase after st on the cycle
Following(st) ==
    LET k == CHOOSE m \in 1 .. Len(PhaseCycle) : PhaseCycle[m] = st IN
    PhaseCycle[(k % Len(PhaseCycle)) + 1]

\* C6: the phase changes only to the phase following it on the cycle Init,
\* ComputeFitness, Reorder, RemoveUnfit, BreedNew, Init, and only in a call
\* whose work unit reported nothing to do; a call that performs work leaves
\* the phase as it was.
C6_PhaseFollowsCycle ==
    /\ (state # called) =>
         /\ state = Following(called)
         /\ ret = "None"
         /\ ~PendingWork(called, before)
    /\ (ret = "Some") => (state = called)

\* the cycle closed: BreedNew handed over to Init
C6_Witness ==
    /\ called = "BreedNew"
    /\ state = "Init"
    /\ ret = "None"
    /\ full_once

\* C7: when the engine leaves Reorder for RemoveUnfit the population is in
\* non-increasing order of fitness.
C7_SortedOnLeavingReorder ==
    (called = "Reorder" /\ state = "RemoveUnfit") => NonIncreasing(population)

\* Reorder left with a full population of more than one fitness
C7_Witness ==
    /\ called = "Reorder"
    /\ state = "RemoveUnfit"
    /\ Len(population) = population_size
    /\ population[1].fitness > population[Len(population)].fitness

\* C8: when the engine leaves ComputeFitness every candidate's fitness is the
\* number of positions at which its text equals the target, between 0 and
\* the length of the target; and a ComputeFitness work unit scores exactly
\* one candidate, the first unscored one.
C8_FitnessIsMatchCount ==
    /\ (called = "ComputeFitness" /\ state = "Reorder") =>
         \A k \in 1 .. Len(population) :
            /\ population[k].fitness = MatchCount(population[k].text, TARGET_STR)
            /\ population[k].fitness \in 0 .. Len(TARGET_STR)
    /\ (called = "ComputeFitness" /\ ret = "Some") =>
         /\ Len(population) = Len(before)
         /\ \E k \in 1 .. Len(before) :
              /\ before[k].fitness = -1
              /\ \A m \in 1 .. (k - 1) : before[m].fitness # -1
              /\ population[k].fitness # -1
              /\ \A m \in 1 .. Len(before) :
                   /\ population[m].text = before[m].text
                   /\ (m # k) => (population[m].fitness = before[m].fitness)

\* ComputeFitness left with a full population holding the target itself and
\* a text that matches it nowhere
C8_Witness ==
    /\ called = "ComputeFitness"
    /\ state = "Reorder"
    /\ Len(population) = population_size
    /\ \E k \in 1 .. Len(population) : population[k].fitness = Len(TARGET_STR)
    /\ \E k \in 1 .. Len(population) : population[k].fitness = 0

\* C9: a RemoveUnfit work unit removes exactly the last candidate and leaves
\* the text, fitness and order of the others as they were; RemoveUnfit
\* removes nothing from a population of num_fit_to_keep candidates or fewer.
C9_CullRemovesLast ==
    /\ (called = "RemoveUnfit" /\ ret = "Some") =>
         /\ Len(before) > num_fit_to_keep
         /\ Content(population) = SubSeq(Content(before), 1, Len(before) - 1)
    /\ (called = "RemoveUnfit" /\ Len(before) <= num_fit_to_keep) =>
         /\ ret = "None"
         /\ Content(population) = Content(before)

\* the last cut of a culling, the candidate removed unlike the one before it
C9_Witness ==
    /\ called = "RemoveUnfit"
    /\ ret = "Some"
    /\ Len(population) = num_fit_to_keep
    /\ Content(before)[Len(before)] # Content(before)[Len(before) - 1]

\* C10 as stated: a call made when the phase has nothing to do leaves every
\* field of every candidate as it was.
C10_PopulationUntouched ==
    (ret = "None") => (population = before)

\* C10 as amended: a call made when the phase has nothing to do adds,
\* removes and reorders no candidate and changes no text or fitness, does
\* not invoke the callback and moves to another phase; it does clear every
\* in_focus flag.
C10_OnlyFocusCleared ==
    (ret = "None") =>
        /\ Len(population) = Len(before)
        /\ \A k \in 1 .. Len(before) :
             /\ population[k].text = before[k].text
             /\ population[k].fitness = before[k].fitness
             /\ population[k].in_focus = FALSE
        /\ callbacks = << >>
        /\ state # called

\* a call with nothing to do that cleared a flag the call before had set
C10_Witness ==
    /\ ret = "None"
    /\ \E k \in 1 .. Len(before) : before[k].in_focus /\ ~population[k].in_focus

\* the positions of the parents of the child the latest call bred: the
\* candidates breed_new marked among those it found
Parents == { k \in 1 .. Len(before) : population[k].in_focus }

\* the child the latest call bred
Child == population[Len(population)]

\* the latest call bred a child
BredChild == called = "BreedNew" /\ ret = "Some"

\* C11: when a generation ends (Reorder left, RemoveUnfit and BreedNew run
\* until BreedNew has nothing to do) the first num_fit_to_keep candidates
\* are those Reorder left in front, text and fitness unchanged, and the
\* population holds population_size candidates again.
C11_SurvivorsRetained ==
    (called = "BreedNew" /\ ret = "None") =>
        /\ Len(population) = population_size
        /\ Len(top_sorted) = num_fit_to_keep
        /\ \A k \in 1 .. num_fit_to_keep :
             /\ population[k].text = top_sorted[k].text
             /\ population[k].fitness = top_sorted[k].fitness

\* a generation ended whose survivors differ from each other and whose
\* last candidate is a child
C11_Witness ==
    /\ called = "BreedNew"
    /\ ret = "None"
    /\ Len(top_sorted) >= 2
    /\ top_sorted[1] # top_sorted[2]
    /\ population[Len(population)].fitness = -1

\* C12: with mutation probability 0 every character of a bred child is the
\* character one of its two parents has at that position.
C12_NoNovelCharacter ==
    (BredChild /\ mutation_prob = 0) =>
        \A pos \in 1 .. Len(Child.text) :
            \E k \in Parents : Child.text[pos] = population[k].text[pos]

\* a child bred without mutation that took characters of both parents
C12_Witness ==
    /\ BredChild
    /\ mutation_prob = 0
    /\ \A k \in Parents : Child.text # population[k].text

\* the configuration invariant 0 < num_fit_to_keep < population_size
ConfigValid == 0 < num_fit_to_keep /\ num_fit_to_keep < population_size

\* C13: a configuration with num_fit_to_keep >= population_size, with
\* num_fit_to_keep = 0 or with population_size = 0 is rejected when the
\* engine is constructed: no call of next is ever made on such an engine.
C13_InvalidConfigRejected == ~ConfigValid => ret = "NoCall"

\* C14: a BreedNew work unit on n < population_size candidates picks two
\* different parents among those n and appends exactly one candidate, which
\* is unscored and as long as the target; the population grows by one and
\* does not pass population_size.
C14_BreedAppendsOneChild ==
    BredChild =>
        /\ Len(before) < population_size
        /\ Len(population) = Len(before) + 1
        /\ Len(population) <= population_size
        /\ Cardinality(Parents) = 2
        /\ Child.fitness = -1
        /\ Len(Child.text) = Len(TARGET_STR)
        /\ Content(SubSeq(population, 1, Len(before))) = Content(before)

\* the child that fills the population, bred from its two last candidates
C14_Witness ==
    /\ BredChild
    /\ Len(population) = population_size
    /\ Parents = {Len(before) - 1, Len(before)}

\* C15: both parents of every child are among the first num_fit_to_keep
\* candidates, the survivors of RemoveUnfit; a child bred earlier in the
\* same BreedNew phase, still unscored, is never a parent.
C15_ParentsAreSurvivors ==
    BredChild =>
        \A k \in Parents :
            /\ k <= num_fit_to_keep
            /\ population[k].fitness # -1

\* the positions of the candidates in focus
InFocus == { k \in 1 .. Len(population) : population[k].in_focus }

\* C16: after a call of next the candidates in focus are those its work
\* unit marked: the seeded one, the scored one, the new last one after a
\* removal, the two parents and the child after a breeding; none after a
\* sort, after a call without work or after a call that failed.
C16_FocusIsLatestWork ==
    /\ (ret # "Some") => InFocus = {}
    /\ (ret = "Some" /\ called = "Init") => InFocus = {Len(population)}
    /\ (ret = "Some" /\ called = "ComputeFitness") =>
         /\ Cardinality(InFocus) = 1
         /\ \A k \in InFocus :
              /\ before[k].fitness = -1
              /\ population[k].fitness # -1
    /\ (ret = "Some" /\ called = "Reorder") => InFocus = {}
    /\ (ret = "Some" /\ called = "RemoveUnfit") => InFocus = {Len(population)}
    /\ (ret = "Some" /\ called = "BreedNew") =>
         /\ Len(population) \in InFocus
         /\ Cardinality(InFocus) = 3

\* a breeding right after another: the flags of the first are gone
C16_Witness ==
    /\ BredChild
    /\ Cardinality(InFocus) = 3
    /\ \E k \in 1 .. Len(before) : before[k].in_focus /\ ~population[k].in_focus

\* C17: from an empty population with 2 <= num_fit_to_keep <
\* population_size the engine, called again and again, performs work
\* infinitely often and is in every phase infinitely often, and never more
\* than two calls in a row return without work.
C17_NeverStuck ==
    /\ []<>(ret = "Some")
    /\ \A st \in States : []<>(state = st)
    /\ [](idle <= 2)

\* after a whole generation, two calls in a row without work
C17_Witness ==
    /\ bred_once
    /\ idle = 2
    /\ called = "Init"
    /\ state = "ComputeFitness"

\* the largest fitness among the candidates pop
MaxFitness(pop) ==
    CHOOSE f \in { pop[k].fitness : k \in 1 .. Len(pop) } :
        \A k \in 1 .. Len(pop) : pop[k].fitness <= f

\* C18: the largest fitness of the population, taken each time Reorder is
\* left, is never smaller than it was the time before; and once the first
\* candidate is the target when Reorder is left, it is the target every
\* later time Reorder is left.
C18_BestNeverDecreases ==
    [][ (state = "Reorder" /\ state' = "RemoveUnfit" /\ Len(top_sorted) > 0) =>
            /\ MaxFitness(population') >= MaxFitness(top_sorted)
            /\ (top_sorted[1].text = TARGET_STR) =>
                   (population'[1].text = TARGET_STR) ]_vars

\* Reorder left after a generation of breeding, the target in front
C18_Witness ==
    /\ bred_once
    /\ called = "Reorder"
    /\ state = "RemoveUnfit"
    /\ population[1].text = TARGET_STR
    /\ population[Len(population)].text # TARGET_STR

\* C19: while the engine is in Reorder or RemoveUnfit no candidate is
\* unscored; Reorder compares and RemoveUnfit removes scored candidates only.
C19_ScoredWhileSortingAndCulling ==
    /\ (state \in {"Reorder", "RemoveUnfit"}) =>
         \A k \in 1 .. Len(population) : population[k].fitness # -1
    /\ (called \in {"Reorder", "RemoveUnfit"} /\ ret = "Some") =>
         \A k \in 1 .. Len(before) : before[k].fitness # -1

\* culling about to start on a full population that holds scored children
C19_Witness ==
    /\ bred_once
    /\ state = "RemoveUnfit"
    /\ Len(population) = population_size

\* C20: once BreedNew has been left for the first time, the engine finds
\* population_size candidates whenever it is in Init, and a call in Init
\* returns None and adds nothing.
C20_SeedingOnlyFirstCycle ==
    /\ (bred_once /\ state = "Init") => Len(population) = population_size
    /\ (bred_once /\ called = "Init") =>
         /\ ret = "None"
         /\ Len(before) = population_size
         /\ Content(population) = Content(before)

\* Init visited again after a generation, with nothing to seed
C20_Witness ==
    /\ bred_once
    /\ called = "Init"
    /\ ret = "None"
    /\ state = "ComputeFitness"

====
